---- MODULE Spec2Model ----
(***************************************************************************)
(* A model of StarWheel.do_rendering (src/starwheel.py): one render pass   *)
(* of the planisphere star wheel, as the sequence of drawing-surface calls *)
(* it issues.                                                              *)
(*                                                                         *)
(* Numbers.  Lengths are integers in units of 0.01 mm.  Angles, and every  *)
(* other real the code handles as a float, are fixed-point integers with   *)
(* six decimals (Scale); cos and sin return four decimals (TrigScale).     *)
(* Declinations, right ascensions and latitudes of the input are whole     *)
(* degrees (hours for the label file), magnitudes are tenths.              *)
(*                                                                         *)
(* Statement order.  Lines 307-338 (the Nakshatra block) and 342-358 (the  *)
(* remnant of the commented-out month loop) carry an indentation that      *)
(* belongs to no enclosing block (the interpreter rejects the file as it   *)
(* stands).  The model executes the statements of do_rendering in the      *)
(* order of the text, each block once, as part of the body of              *)
(* do_rendering.                                                           *)
(***************************************************************************)
EXTENDS Integers, Sequences, FiniteSets, TLC

VARIABLES settings, pc, gi, nread, calls, feats, error

vars == <<settings, pc, gi, nread, calls, feats, error>>

(***************************************************************************)
(* Bounds of the model.                                                    *)
(***************************************************************************)
\* Records (file lines and catalogue stars) one pass reads, all inputs together.
MaxRecords == 3

(***************************************************************************)
(* Fixed-point arithmetic.                                                 *)
(***************************************************************************)
Scale == 1000 * 1000
TrigScale == 100 * 100

Abs(x) == IF x < 0 THEN -x ELSE x

\* a * b for two six-decimal numbers, staged so that no product leaves 32 bits.
FMul(a, b) == ((a \div 1000) * b) \div 1000

\* a / b for two six-decimal numbers, by long division.
FDiv(a, b) ==
    LET q1 == a \div b
        r1 == a % b
        q2 == (r1 * 1000) \div b
        r2 == (r1 * 1000) % b
        q3 == (r2 * 1000) \div b
    IN  q1 * Scale + q2 * 1000 + q3

(***************************************************************************)
(* math.pi, math.cos, math.sin, math.hypot.                                *)
(***************************************************************************)
pi == 3141593

\* cos on [0, pi/2], argument six decimals, by its Taylor polynomial to x^8.
CosSmall(z) ==
    LET z4 == z \div 100
        q  == (z4 * z4) \div TrigScale
        t1 == (TrigScale * q) \div (TrigScale * 2)
        t2 == (t1 * q) \div (TrigScale * 12)
        t3 == (t2 * q) \div (TrigScale * 30)
        t4 == (t3 * q) \div (TrigScale * 56)
    IN  TrigScale - t1 + t2 - t3 + t4

\* math.cos: the argument is taken as RADIANS, whatever the caller meant.
cos(a) ==
    LET x0 == a % (2 * pi)
        y  == IF x0 > pi THEN 2 * pi - x0 ELSE x0
    IN  IF 2 * y > pi THEN -CosSmall(pi - y) ELSE CosSmall(y)

sin(a) == cos(a - pi \div 2)

\* hypot(dx, dy) > cap, compared on the squares.
HypotExceeds(dx, dy, cap) == dx * dx + dy * dy > cap * cap

(***************************************************************************)
(* constants.py (imported at line 32; the file is not part of src/).       *)
(***************************************************************************)
unit_mm == 100
unit_cm == 1000
unit_deg == 17453
unit_rev == 2 * pi
r_1 == 8000
r_gap == 1000
central_hole_size == 100

\* Radius of outer edge of star chart (line 96).
r_2 == r_1 - r_gap

\* radius(dec, latitude): 0 at dec = +90, r_2 at dec = latitude - 90, linear.
radius(dec, latitude) == ((90 - dec) * r_2) \div (180 - latitude)

(***************************************************************************)
(* The other ring radii of do_rendering (lines 99-111, 310-312).           *)
(***************************************************************************)
r_6 == (r_1 * 4 + r_2 * 6) \div 10
shading_inner_radius == (r_1 * 55 + r_2 * 45) \div 100
radius_label == (r_1 * 75 + r_2 * 25) \div 100
tick_outer == r_1
tick_inner == r_1 - (15 * unit_cm) \div 100

(***************************************************************************)
(* Module-level data of starwheel.py.                                      *)
(***************************************************************************)
NAKSHATRAS ==
    << "Asvini", "Bharani", "Krttika", "Rohini", "Mrgasirsa",
       "Ardra", "Punarvasu", "Pusya", "Aslesa", "Magha",
       "Purva Phalguni", "Uttara Phalguni", "Hasta", "Chitra",
       "Svati", "Visakha", "Anuradha", "Jyestha", "Mula",
       "Purva Asadha", "Uttara Asadha", "Sravana", "Dhanistha",
       "Satabhisa", "Purva Bhadrapada", "Uttara Bhadrapada", "Revati" >>

\* 360.0 / len(NAKSHATRAS): a plain number, about 13.333 (line 46).
ANGLE_STEP_NAK == (360 * Scale) \div Len(NAKSHATRAS)

(***************************************************************************)
(* The collaborators' tables: themes.themes and text.text.                 *)
(***************************************************************************)
themes == {"default"}
text == {"en"}

\* text[language]['constellation_translations'], as a set of pairs.
constellation_translations == { << <<"Ursa", "Major">>, <<"Great", "Bear">> >> }

(***************************************************************************)
(* Input records.  A field of a line is a token: a numeral, with the value *)
(* float() gives it, or any other word (the words between its underscores).*)
(***************************************************************************)
N(v) == [num |-> TRUE, val |-> v, words |-> <<>>]
W(w) == [num |-> FALSE, val |-> 0, words |-> w]

Blank == [comment |-> FALSE, fields |-> <<>>]
Comment == [comment |-> TRUE, fields |-> << W(<<"#">>) >>]
Data(f) == [comment |-> FALSE, fields |-> f]

\* Lines raw_data/constellation_stick_figures.dat may hold:
\* name, ra1, dec1, ra2, dec2 in degrees.
StickLines ==
    { Blank, Comment,
      Data(<< W(<<"Ori">>), N(0), N(20), N(30), N(20) >>),
      Data(<< W(<<"Vir">>), N(90), N(0), N(270), N(0) >>),
      Data(<< W(<<"Cru">>), N(0), N(-60), N(0), N(-50) >>),
      Data(<< W(<<"Sco">>), N(0), N(-30), N(10), N(-45) >>),
      Data(<< W(<<"UMi">>), N(0), N(60), N(10), N(60) >>),
      Data(<< W(<<"Lyr">>), N(10), N(20), N(30) >>),
      Data(<< W(<<"Cyg">>), N(10), W(<<"n/a">>), N(30), N(20) >>) }

\* Entries fetch_bright_star_list()['stars'] may hold: ra, dec in degrees,
\* magnitude in tenths or the sentinel "-".
Stars ==
    { << N(101), N(-17), N(-15) >>,
      << N(279), N(39), N(0) >>,
      << N(90), N(60), N(40) >>,
      << N(200), N(-60), N(10) >>,
      << N(10), N(10), N(50) >>,
      << N(20), N(20), W(<<"-">>) >> }

\* Lines raw_data/constellation_names.dat may hold: name, ra in hours, dec in
\* degrees, and further fields.
NameLines ==
    { Comment,
      Data(<< W(<<"Ursa", "Major">>), N(11), N(50) >>),
      Data(<< W(<<"Crux">>), N(12), N(-60) >>),
      Data(<< W(<<"Orion">>), N(5), N(5), N(1) >>),
      Data(<< W(<<"Lyra">>), N(18) >>),
      Data(<< W(<<"Cygnus">>), W(<<"n/a">>), N(40) >>) }

\* The settings a pass may be given (settings['latitude'], ['language'], ['theme']).
Latitudes == {52, -35}
Languages == {"en", "xx"}
ThemeNames == {"default", "plain"}

(***************************************************************************)
(* Parsing, as the code does it.                                           *)
(***************************************************************************)
\* (len(line) == 0) or (line[0] == '#')  (lines 147, 231)
Ignored(line) == Len(line.fields) = 0 \/ line.comment

\* float(field) raises ValueError on a field that is no numeral.
FloatOk(tok) == tok.num
float(tok) == tok.val

\* name, ra1_str, dec1_str, ra2_str, dec2_str = line.split()  (line 157)
\* followed by the four float() calls (lines 159-162).
StickParses(line) ==
    /\ Len(line.fields) = 5
    /\ \A k \in 2..5 : FloatOk(line.fields[k])

\* name, ra_str, dec_str = line.split()[:3]  (line 235)
NameUnpacks(line) == Len(line.fields) >= 3

\* float(ra_str), float(dec_str)  (lines 241-242)
NameParses(line) == FloatOk(line.fields[2]) /\ FloatOk(line.fields[3])

\* mag == "-" or float(mag) > 4.0  (line 200); magnitudes in tenths.
Discarded(mag) == (~mag.num /\ mag.words = <<"-">>) \/ float(mag) > 40

(***************************************************************************)
(* Hemisphere and geometry.                                                *)
(***************************************************************************)
is_southern == settings.latitude < 0
latitude == Abs(settings.latitude)

\* StarFlip with the declination left as it is: the variant the hemisphere
\* property is tested against.
StarFlip_RaOnly(ra, dec) == IF is_southern THEN << -ra, dec >> ELSE << ra, dec >>

\* In the southern hemisphere, we flip the sky upside down (lines 165-169).
StickFlip(ra1, dec1, ra2, dec2) ==
    IF is_southern THEN << -ra1, -dec1, -ra2, -dec2 >>
                   ELSE << ra1, dec1, ra2, dec2 >>

\* lines 207-209
StarFlip(ra, dec) == IF is_southern THEN << -ra, -dec >> ELSE << ra, dec >>

\* lines 245-247
NameFlip(ra, dec) == IF is_southern THEN << -ra, -dec >> ELSE << ra, dec >>

\* InChart measured against the rim of the disc instead of the chart: the
\* variant the boundary property is tested against.
InChart_ToRim(r) == ~(r > r_1)

\* The guards "if r > r_2: continue" (lines 135, 173, 177, 212, 252), negated.
InChart(r) == ~(r > r_2)

\* (-r * cos(ra * unit_deg), -r * sin(ra * unit_deg))  (lines 180-183, 217, 254)
Point(r, ra) ==
    << (-r * cos(ra * unit_deg)) \div TrigScale,
       (-r * sin(ra * unit_deg)) \div TrigScale >>

\* TooLong measuring the horizontal extent alone: the variant the length-cap
\* property is tested against.
TooLong_XOnly(p1, p2) == Abs(p2[1] - p1[1]) > 4 * unit_cm

\* hypot(p2[0] - p1[0], p2[1] - p1[1]) > 4 * unit_cm  (line 186)
TooLong(p1, p2) == HypotExceeds(p2[1] - p1[1], p2[2] - p1[2], 4 * unit_cm)

\* StarSize measured from the faint limit of line 200: the variant the
\* marker-size property is tested against.
StarSize_FromLimit(mag) == (18 * unit_mm * (40 - mag)) \div 1000

\* 0.18 * unit_mm * (5 - mag)  (line 218); mag in tenths.
StarSize(mag) == (18 * unit_mm * (50 - mag)) \div 1000

\* arange centred on zero: the variant the grid property is tested against.
arange_Centred(start, stop, step) ==
    LET n == (stop - start + step - 1) \div step
    IN  [k \in 1..n |-> start + (k - 1) * step + ((1 - n) * step) \div 2 - start]

\* arange(-80, 85, 15)  (line 132)
arange(start, stop, step) ==
    LET n == (stop - start + step - 1) \div step
    IN  [k \in 1..n |-> start + (k - 1) * step]

GridDecs == arange(-80, 85, 15)

(***************************************************************************)
(* calendar.julian_day and theta2014 (lines 261-271).  Times are counted   *)
(* in units of five minutes.                                               *)
(***************************************************************************)
julian_day(year, month, day, hour, minute) ==
    LET a  == (14 - month) \div 12
        yy == year + 4800 - a
        mm == month + 12 * a - 3
        jdn == day + (153 * mm + 2) \div 5 + 365 * yy + yy \div 4
               - yy \div 100 + yy \div 400 - 32045
    IN  jdn * 288 + hour * 12 + minute \div 5

\* (d - julian_day(2014, 3, 20, 16, 55, 0)) / 365.25 * unit_rev
theta2014(d) ==
    (((d - julian_day(2014, 3, 20, 16, 55)) * (unit_rev \div 1000))
        \div ((36525 * 288) \div 100)) * 1000

(***************************************************************************)
(* The drawing surface: a call is its name, its numeric arguments, and the *)
(* theme role or the text it is given.  The text alignment, gap and        *)
(* rotation arguments are not modelled.  stage is the section of           *)
(* do_rendering that issued the call.                                      *)
(***************************************************************************)
Call(op, stage, args, tag) ==
    [op |-> op, stage |-> stage, args |-> args, tag |-> tag]

\* The record of one feature instance a loop body handled: the raw
\* coordinates, the ones given to the projection, the radii radius()
\* returned (for a Nakshatra sector, the angle given to cos and sin as
\* theta), the magnitude token of a star, whether the body reached its
\* drawing calls and where in calls they start, and whether the record made
\* the body raise.
FeatAt(stage, idx, raw, used, rs, mag, at, bad) ==
    [stage |-> stage, idx |-> idx, raw |-> raw, used |-> used, rs |-> rs,
     mag |-> mag, theta |-> 0, drawn |-> at > 0, at |-> at, bad |-> bad]

\* The record of a feature whose calls, if drawn, are the next ones issued.
Feat(stage, idx, raw, used, rs, mag, drawn, bad) ==
    FeatAt(stage, idx, raw, used, rs, mag,
           IF drawn THEN Len(calls) + 1 ELSE 0, bad)

\* lines 93-128
SetupCalls ==
    << Call("set_font_size", "setup", <<12>>, <<>>),
       Call("begin_path", "shading", <<>>, <<>>),
       Call("circle", "shading", <<0, 0, r_1>>, <<>>),
       Call("circle", "shading", <<0, 0, shading_inner_radius>>, <<>>),
       Call("fill", "shading", <<>>, <<"shading">>),
       Call("begin_path", "disc", <<>>, <<>>),
       Call("circle", "disc", <<0, 0, r_1>>, <<>>),
       Call("fill", "disc", <<>>, <<"background">>),
       Call("begin_sub_path", "hole", <<>>, <<>>),
       Call("circle", "hole", <<0, 0, central_hole_size>>, <<>>),
       Call("stroke", "hole", <<>>, <<"edge">>),
       Call("clip", "clip", <<>>, <<>>) >>

\* lines 137-139
GridCalls(r) ==
    << Call("begin_path", "grid", <<>>, <<>>),
       Call("circle", "grid", <<0, 0, r>>, <<>>),
       Call("stroke", "grid", <<>>, <<"grid">>) >>

\* lines 190-193
StickCalls(p1, p2) ==
    << Call("begin_path", "stick", <<>>, <<>>),
       Call("move_to", "stick", p1, <<>>),
       Call("line_to", "stick", p2, <<>>),
       Call("stroke", "stick", <<1>>, <<"stick", "dotted">>) >>

\* lines 216-219
StarCalls(p, size) ==
    << Call("begin_path", "star", <<>>, <<>>),
       Call("circle", "star", <<p[1], p[2], size>>, <<>>),
       Call("fill", "star", <<>>, <<"star">>) >>

\* lines 222-223
NameSetupCalls ==
    << Call("set_font_size", "label", <<7>>, <<>>),
       Call("set_color", "label", <<>>, <<"constellation">>) >>

\* lines 238-239 and 250: the translation, then _ turned into spaces (the
\* words of the name are what the text call is given).
Translated(name) ==
    IF \E t \in constellation_translations : t[1] = name
    THEN (CHOOSE t \in constellation_translations : t[1] = name)[2]
    ELSE name

\* line 259
SignFactor == IF ~is_southern THEN -1 ELSE 1

\* lines 316-319: the number the code calls theta.
NakTheta(s, i) ==
    FDiv(s * theta2014(julian_day(2014, 3, 20, 16, 55)), unit_deg)
        + i * ANGLE_STEP_NAK

\* theta + ANGLE_STEP_NAK/2 * unit_deg  (lines 328-329)
NakLabelAngle(theta) == theta + FMul(ANGLE_STEP_NAK \div 2, unit_deg)

\* lines 322-338, for one i
NakCalls(s, i) ==
    LET theta == NakTheta(s, i)
        la == NakLabelAngle(theta)
    IN  << Call("begin_path", "nak", <<>>, <<>>),
           Call("move_to", "nak",
                << (tick_outer * cos(theta)) \div TrigScale,
                   (-tick_outer * sin(theta)) \div TrigScale >>, <<>>),
           Call("line_to", "nak",
                << (tick_inner * cos(theta)) \div TrigScale,
                   (-tick_inner * sin(theta)) \div TrigScale >>, <<>>),
           Call("stroke", "nak", <<1>>, <<>>),
           Call("text", "nak",
                << (radius_label * cos(la)) \div TrigScale,
                   (-radius_label * sin(la)) \div TrigScale >>,
                << NAKSHATRAS[i + 1] >>) >>

RECURSIVE NakRing(_, _)
\* lines 307-308 and the loop of line 314, from index i on
NakRing(s, i) ==
    IF i >= Len(NAKSHATRAS) THEN <<>>
    ELSE NakCalls(s, i) \o NakRing(s, i + 1)

RECURSIVE NakFeats(_, _)
\* The records of the sectors from index i on; at counts from the start of
\* the ring's calls: the two calls of lines 307-308, then five to a sector.
NakFeats(s, i) ==
    IF i >= Len(NAKSHATRAS) THEN <<>>
    ELSE << [FeatAt("nak", i, <<>>, <<>>, <<>>, N(0), 3 + 5 * i, FALSE)
                EXCEPT !.theta = NakTheta(s, i)] >>
         \o NakFeats(s, i + 1)

\* The ring's calls and records for either value of the sign factor.
NakRingOf == [s \in {-1, 1} |-> NakRing(s, 0)]
NakFeatsOf == [s \in {-1, 1} |-> NakFeats(s, 0)]

\* The integer names bound when line 342 is reached: the locals of
\* do_rendering assigned so far and the module's globals.
Namespace ==
    [n \in {"r_1", "r_gap", "r_2", "r_6", "s", "i"} |->
        CASE n = "r_1" -> r_1
          [] n = "r_gap" -> r_gap
          [] n = "r_2" -> r_2
          [] n = "r_6" -> r_6
          [] n = "s" -> SignFactor
          [] n = "i" -> Len(NAKSHATRAS) - 1]

\* lines 343-358, for one d
DigitCalls(s, mn, d) ==
    LET theta == s * theta2014(julian_day(2014, mn + 1, d, 0, 0))
        t1 == theta + (15 * unit_deg) \div 100
        t2 == theta - (15 * unit_deg) \div 100
    IN  << Call("set_font_size", "digits", <<12>>, <<>>),
           Call("text", "digits",
                << (r_6 * cos(t1)) \div TrigScale, (-r_6 * sin(t1)) \div TrigScale >>,
                <<"first digit">>),
           Call("text", "digits",
                << (r_6 * cos(t2)) \div TrigScale, (-r_6 * sin(t2)) \div TrigScale >>,
                <<"second digit">>) >>

\* lines 361-363
BorderCalls ==
    << Call("begin_path", "border", <<>>, <<>>),
       Call("circle", "border", <<0, 0, r_2>>, <<>>),
       Call("stroke", "border", <<1>>, <<"date">>) >>

(***************************************************************************)
(* The render pass.                                                        *)
(***************************************************************************)
Init ==
    /\ settings \in [latitude : Latitudes, language : Languages, theme : ThemeNames]
    /\ pc = "start"
    /\ gi = 1
    /\ nread = 0
    /\ calls = <<>>
    /\ feats = <<>>
    /\ error = "none"

Raise(e) ==
    /\ pc' = "raised"
    /\ error' = e

\* lines 88-128: the settings are read (themes[...] raises KeyError on an
\* unknown theme), then background shading, disc, central hole and clip.
Setup ==
    /\ pc = "start"
    /\ IF settings.theme \notin themes
       THEN /\ Raise("KeyError")
            /\ UNCHANGED <<settings, gi, nread, calls, feats>>
       ELSE /\ calls' = calls \o SetupCalls
            /\ pc' = "grid"
            /\ UNCHANGED <<settings, gi, nread, feats, error>>

\* lines 132-139: one iteration of the declination loop.
GridStep ==
    /\ pc = "grid"
    /\ LET dec == GridDecs[gi]
           r == radius(dec, latitude)
       IN  /\ calls' = IF InChart(r) THEN calls \o GridCalls(r) ELSE calls
           /\ feats' = Append(feats,
                  Feat("grid", gi, <<dec>>, <<dec>>, <<r>>, N(0), InChart(r), FALSE))
    /\ gi' = gi + 1
    /\ pc' = IF gi = Len(GridDecs) THEN "stick_open" ELSE "grid"
    /\ UNCHANGED <<settings, nread, error>>

\* line 142: open() raises FileNotFoundError on a missing file.
StickOpen ==
    /\ pc = "stick_open"
    /\ \E readable \in BOOLEAN :
          IF readable THEN pc' = "stick" /\ error' = error
                      ELSE Raise("FileNotFoundError")
    /\ UNCHANGED <<settings, gi, nread, calls, feats>>

\* lines 143-193: one line of the stick-figure file.
StickLine ==
    /\ pc = "stick"
    /\ nread < MaxRecords
    /\ nread' = nread + 1
    /\ \E line \in StickLines :
          IF Ignored(line)
          THEN UNCHANGED <<pc, error, calls, feats>>
          ELSE IF ~StickParses(line)
          THEN /\ Raise("ValueError")
               /\ feats' = Append(feats,
                      Feat("stick", nread, <<>>, <<>>, <<>>, N(0), FALSE, TRUE))
               /\ UNCHANGED calls
          ELSE LET f == line.fields
                   raw == << float(f[2]), float(f[3]), float(f[4]), float(f[5]) >>
                   u == StickFlip(raw[1], raw[2], raw[3], raw[4])
                   r_point_1 == radius(u[2], latitude)
                   r_point_2 == radius(u[4], latitude)
                   p1 == Point(r_point_1, u[1])
                   p2 == Point(r_point_2, u[3])
                   rs == IF InChart(r_point_1) THEN << r_point_1, r_point_2 >>
                                               ELSE << r_point_1 >>
                   draw == /\ InChart(r_point_1)
                           /\ InChart(r_point_2)
                           /\ ~TooLong(p1, p2)
               IN  /\ calls' = IF draw THEN calls \o StickCalls(p1, p2) ELSE calls
                   /\ feats' = Append(feats,
                          Feat("stick", nread, raw, u, rs, N(0), draw, FALSE))
                   /\ UNCHANGED <<pc, error>>
    /\ UNCHANGED <<settings, gi>>

\* line 143: the file is exhausted.
StickEnd ==
    /\ pc = "stick"
    /\ pc' = "star"
    /\ UNCHANGED <<settings, gi, nread, calls, feats, error>>

\* lines 196-219: one star of the catalogue.
StarStep ==
    /\ pc = "star"
    /\ nread < MaxRecords
    /\ nread' = nread + 1
    /\ \E star_descriptor \in Stars :
          LET mag == star_descriptor[3]
              raw == << float(star_descriptor[1]), float(star_descriptor[2]) >>
          IN  IF Discarded(mag)
              THEN /\ feats' = Append(feats,
                          Feat("star", nread, raw, <<>>, <<>>, mag, FALSE, FALSE))
                   /\ UNCHANGED calls
              ELSE LET u == StarFlip(raw[1], raw[2])
                       r == radius(u[2], latitude)
                   IN  /\ calls' = IF InChart(r)
                                   THEN calls \o StarCalls(Point(r, u[1]),
                                                           StarSize(float(mag)))
                                   ELSE calls
                       /\ feats' = Append(feats,
                              Feat("star", nread, raw, u, <<r>>, mag, InChart(r), FALSE))
    /\ UNCHANGED <<settings, gi, pc, error>>

\* lines 196 and 222-226: the catalogue is exhausted; font and colour for
\* the names are set and the names file is opened.
NameOpen ==
    /\ pc = "star"
    /\ calls' = calls \o NameSetupCalls
    /\ \E readable \in BOOLEAN :
          IF readable THEN pc' = "label" /\ error' = error
                      ELSE Raise("FileNotFoundError")
    /\ UNCHANGED <<settings, gi, nread, feats>>

\* lines 227-256: one line of the names file.
NameLine ==
    /\ pc = "label"
    /\ nread < MaxRecords
    /\ nread' = nread + 1
    /\ \E line \in NameLines :
          IF Ignored(line)
          THEN UNCHANGED <<pc, error, calls, feats>>
          ELSE IF ~NameUnpacks(line)
          THEN /\ Raise("ValueError")
               /\ feats' = Append(feats,
                      Feat("label", nread, <<>>, <<>>, <<>>, N(0), FALSE, TRUE))
               /\ UNCHANGED calls
          ELSE IF settings.language \notin text
          THEN /\ Raise("KeyError")
               /\ UNCHANGED <<calls, feats>>
          ELSE IF ~NameParses(line)
          THEN /\ Raise("ValueError")
               /\ feats' = Append(feats,
                      Feat("label", nread, <<>>, <<>>, <<>>, N(0), FALSE, TRUE))
               /\ UNCHANGED calls
          ELSE LET f == line.fields
                   name == Translated(f[1].words)
                   raw == << float(f[2]), float(f[3]) >>
                   u == NameFlip((raw[1] * 360) \div 24, raw[2])
                   r == radius(u[2], latitude)
               IN  /\ calls' = IF InChart(r)
                               THEN Append(calls,
                                        Call("text", "label", Point(r, u[1]), name))
                               ELSE calls
                   /\ feats' = Append(feats,
                          Feat("label", nread, raw, u, <<r>>, N(0), InChart(r), FALSE))
                   /\ UNCHANGED <<pc, error>>
    /\ UNCHANGED <<settings, gi>>

\* lines 227, 259 and 307-338: the names file is exhausted; the sign factor
\* is set and the Nakshatra ring is drawn.
NakshatraRing ==
    /\ pc = "label"
    /\ LET s == SignFactor
       IN  /\ calls' = calls
                  \o << Call("set_font_size", "nak", <<18>>, <<>>),
                        Call("set_color", "nak", <<>>, <<"date">>) >>
                  \o NakRingOf[s]
           /\ feats' = feats \o [k \in 1..Len(NAKSHATRAS) |->
                          [NakFeatsOf[s][k] EXCEPT !.at = @ + Len(calls)]]
    /\ pc' = "digits"
    /\ UNCHANGED <<settings, gi, nread, error>>

\* lines 342-363: the list [10, 20, mlen] is built, which raises NameError
\* when mlen is not bound; otherwise the day labels and the dividing circle
\* are drawn and the pass returns.
DayLabelsAndBorder ==
    /\ pc = "digits"
    /\ IF {"mlen", "mn"} \subseteq DOMAIN Namespace
       THEN LET mlen == Namespace["mlen"]
                mn == Namespace["mn"]
                s == SignFactor
            IN  /\ calls' = calls \o DigitCalls(s, mn, 10) \o DigitCalls(s, mn, 20)
                                  \o DigitCalls(s, mn, mlen) \o BorderCalls
                /\ pc' = "done"
                /\ error' = error
       ELSE /\ Raise("NameError")
            /\ UNCHANGED calls
    /\ UNCHANGED <<settings, gi, nread, feats>>

Next ==
    \/ Setup
    \/ GridStep
    \/ StickOpen
    \/ StickLine
    \/ StickEnd
    \/ StarStep
    \/ NameOpen
    \/ NameLine
    \/ NakshatraRing
    \/ DayLabelsAndBorder

Spec == Init /\ [][Next]_vars

TypeOK ==
    /\ pc \in {"start", "grid", "stick_open", "stick", "star", "label",
               "digits", "done", "raised"}
    /\ error \in {"none", "KeyError", "FileNotFoundError", "ValueError", "NameError"}
    /\ nread \in 0..MaxRecords

(***************************************************************************)
(* Properties.                                                             *)
(***************************************************************************)
FeatsOf(stage) == { k \in DOMAIN feats : feats[k].stage = stage }

Count(stage, op) ==
    Cardinality({ k \in DOMAIN calls : calls[k].stage = stage /\ calls[k].op = op })

Drawn(stage) == Cardinality({ k \in FeatsOf(stage) : feats[k].drawn })

ChartStages == {"grid", "stick", "star", "label"}

\* The pass has left the Nakshatra stage behind and stopped.
RanThrough == pc \in {"done", "raised"} /\ FeatsOf("nak") # {}

\* C1: no star-chart feature is emitted whose projected radius exceeds r_2:
\* every grid circle, star marker and label that was drawn has radius <= r_2,
\* every drawn segment has both endpoints within r_2, the calls each chart
\* stage issued are those of its drawn features, and no grid circle call
\* has a radius above r_2.
C1_NothingBeyondR2 ==
    /\ \A k \in DOMAIN feats :
          (feats[k].stage \in ChartStages /\ feats[k].drawn) =>
              /\ Len(feats[k].rs) = (IF feats[k].stage = "stick" THEN 2 ELSE 1)
              /\ \A j \in DOMAIN feats[k].rs : feats[k].rs[j] <= r_2
              /\ calls[feats[k].at].stage = feats[k].stage
    /\ Count("grid", "circle") = Drawn("grid")
    /\ Count("stick", "line_to") = Drawn("stick")
    /\ Count("star", "circle") = Drawn("star")
    /\ Count("label", "text") = Drawn("label")
    /\ \A k \in DOMAIN calls :
          (calls[k].stage = "grid" /\ calls[k].op = "circle") => calls[k].args[3] <= r_2

\* A pass that met a grid circle, a segment endpoint, a star and a label
\* beyond r_2, and went on to the ring.
C1_Witness ==
    /\ RanThrough
    /\ \A st \in {"grid", "star", "label"} :
          \E k \in FeatsOf(st) :
              Len(feats[k].rs) = 1 /\ feats[k].rs[1] > r_2 /\ ~feats[k].drawn
    /\ \E k \in FeatsOf("stick") :
          Len(feats[k].rs) = 2 /\ feats[k].rs[2] > r_2 /\ ~feats[k].drawn

\* C4: on a southern chart the right ascension and declination given to the
\* projection are both the negated raw values, for every segment endpoint,
\* star and label point (the label's right ascension being its hours turned
\* into degrees); on a northern chart both are the raw values; and a drawn
\* star or label sits at the point projected from these coordinates.
C4_Sign == IF settings.latitude < 0 THEN -1 ELSE 1

C4_HemisphereFlip ==
    \A k \in DOMAIN feats :
        LET f == feats[k]
            sg == C4_Sign
        IN  /\ (f.stage = "stick" /\ f.used # <<>>) =>
                  f.used = << sg * f.raw[1], sg * f.raw[2], sg * f.raw[3], sg * f.raw[4] >>
            /\ (f.stage = "star" /\ f.used # <<>>) =>
                  /\ f.used = << sg * f.raw[1], sg * f.raw[2] >>
                  /\ f.drawn =>
                        LET r == radius(sg * f.raw[2], Abs(settings.latitude))
                            p == Point(r, sg * f.raw[1])
                        IN  /\ calls[f.at + 1].args[1] = p[1]
                            /\ calls[f.at + 1].args[2] = p[2]
            /\ (f.stage = "label" /\ f.used # <<>>) =>
                  /\ f.used = << sg * f.raw[1] * 15, sg * f.raw[2] >>
                  /\ f.drawn =>
                        LET r == radius(sg * f.raw[2], Abs(settings.latitude))
                        IN  calls[f.at].args = Point(r, sg * f.raw[1] * 15)

\* A southern pass that projected a segment, drew a star and drew a label.
C4_Witness ==
    /\ settings.latitude < 0
    /\ \E k \in FeatsOf("stick") : Len(feats[k].rs) = 2
    /\ \E k \in FeatsOf("star") : feats[k].drawn /\ feats[k].raw[2] # 0
    /\ \E k \in FeatsOf("label") : feats[k].drawn

\* The radius a star is projected to, from its raw declination.
StarRadiusOf(f) == radius(C4_Sign * f.raw[2], Abs(settings.latitude))

\* C5 (the visibility rule): a star gets a marker iff its magnitude is
\* numeric, at most 4.0, and its projected radius is at most r_2; the star
\* stage issues one circle for each such star.
C5_MarkerIff ==
    /\ \A k \in FeatsOf("star") :
          feats[k].drawn <=>
              /\ feats[k].mag.num
              /\ feats[k].mag.val <= 40
              /\ StarRadiusOf(feats[k]) <= r_2
    /\ Count("star", "circle") = Drawn("star")

\* C5 as amended: the visibility rule, and the marker radius is
\* 0.18 mm * (5 - magnitude): 0.18 mm at the faint limit 4.0, 0.9 mm at
\* magnitude 0.
C5_MarkerSize ==
    /\ C5_MarkerIff
    /\ \A k \in FeatsOf("star") :
          feats[k].drawn =>
              LET size == calls[feats[k].at + 1].args[3]
                  m == feats[k].mag.val
              IN  /\ 1000 * size <= 18 * unit_mm * (50 - m)
                  /\ 1000 * (size + 1) > 18 * unit_mm * (50 - m)
                  /\ (m = 40 => size = (18 * unit_mm) \div 100)
                  /\ (m = 0 => size = (90 * unit_mm) \div 100)

\* A pass that drew a star at the faint limit and one of magnitude 0, and
\* passed over a fainter one.
C5_Witness ==
    /\ \E k \in FeatsOf("star") : feats[k].drawn /\ feats[k].mag.val = 40
    /\ \E k \in FeatsOf("star") : feats[k].drawn /\ feats[k].mag.val = 0
    /\ \E k \in FeatsOf("star") : ~feats[k].drawn /\ feats[k].mag.val = 50

\* C5 as stated: the marker radius is k * (magLimit - magnitude) with
\* magLimit the faint limit of the visibility rule, so that a star at the
\* faint limit has marker radius 0 or no marker.
C5_AsStated ==
    /\ C5_MarkerIff
    /\ \A k \in FeatsOf("star") :
          (feats[k].mag.num /\ feats[k].mag.val = 40) =>
              (~feats[k].drawn \/ calls[feats[k].at + 1].args[3] = 0)

\* The two projected endpoints of a segment, from the coordinates it used.
EndPoints(f) ==
    << Point(f.rs[1], f.used[1]), Point(f.rs[2], f.used[3]) >>

\* C9: a segment with both endpoints within r_2 is drawn iff the distance
\* between its projected endpoints is at most 4 cm; drawn, it is exactly one
\* path: begin_path, move_to the first point, line_to the second, stroke;
\* not drawn, it issues no call.
C9_LengthCap ==
    /\ \A k \in FeatsOf("stick") :
          LET f == feats[k]
          IN  (Len(f.rs) = 2 /\ f.rs[1] <= r_2 /\ f.rs[2] <= r_2) =>
                  LET p == EndPoints(f)
                      dx == p[2][1] - p[1][1]
                      dy == p[2][2] - p[1][2]
                      within == dx * dx + dy * dy <= (4 * unit_cm) * (4 * unit_cm)
                  IN  /\ f.drawn <=> within
                      /\ f.drawn =>
                            /\ calls[f.at].op = "begin_path"
                            /\ calls[f.at + 1].op = "move_to"
                            /\ calls[f.at + 1].args = p[1]
                            /\ calls[f.at + 2].op = "line_to"
                            /\ calls[f.at + 2].args = p[2]
                            /\ calls[f.at + 3].op = "stroke"
                      /\ ~f.drawn => f.at = 0
    /\ Count("stick", "line_to") = Drawn("stick")
    /\ Count("stick", "stroke") = Drawn("stick")

\* A pass that passed over a segment longer than 4 cm with both endpoints
\* within r_2, and drew a shorter one.
C9_Witness ==
    /\ \E k \in FeatsOf("stick") :
          Len(feats[k].rs) = 2 /\ feats[k].rs[2] <= r_2 /\ ~feats[k].drawn
    /\ \E k \in FeatsOf("stick") : feats[k].drawn

\* The declination loop has run to its end.
GridDone == pc \notin {"start", "grid"} /\ calls # <<>>

\* C6 as amended: the grid stage considers the declinations -80, -65, ...,
\* 70 (every 15 degrees from -80, below 85), in this order; 0 and +80 are not
\* among them; a circle is drawn exactly for those whose projected radius is
\* at most r_2, with that radius.
C6_GridDeclinations ==
    /\ \A k \in FeatsOf("grid") :
          LET f == feats[k]
              r == radius(f.raw[1], Abs(settings.latitude))
          IN  /\ f.raw = << -80 + 15 * (f.idx - 1) >>
              /\ f.raw[1] <= 70
              /\ f.raw[1] # 0
              /\ f.drawn <=> r <= r_2
              /\ f.drawn => calls[f.at + 1].args = << 0, 0, r >>
    /\ GridDone =>
          /\ Cardinality(FeatsOf("grid")) = 11
          /\ Count("grid", "circle") = Drawn("grid")

\* A pass for latitude +52 that has finished the grid, with a circle drawn
\* and a circle passed over.
C6_Witness ==
    /\ settings.latitude = 52
    /\ GridDone
    /\ \E k \in FeatsOf("grid") : feats[k].drawn
    /\ \E k \in FeatsOf("grid") : ~feats[k].drawn

\* C6 as stated: for latitude +52 the finished grid holds the declination-0
\* circle, and no circle whose projected radius exceeds r_2.
C6_AsStated ==
    (settings.latitude = 52 /\ GridDone) =>
        /\ \E k \in FeatsOf("grid") : feats[k].raw = <<0>> /\ feats[k].drawn
        /\ \A k \in FeatsOf("grid") : feats[k].rs[1] > r_2 => ~feats[k].drawn

StageRank ==
    [st \in {"setup", "shading", "disc", "hole", "clip", "grid", "stick",
             "star", "label", "nak", "digits", "border"} |->
        CASE st = "setup" -> 0
          [] st = "shading" -> 1
          [] st = "disc" -> 2
          [] st = "hole" -> 3
          [] st = "clip" -> 4
          [] st = "grid" -> 5
          [] st = "stick" -> 6
          [] st = "star" -> 7
          [] st = "label" -> 8
          [] st = "nak" -> 9
          [] st = "digits" -> 10
          [] st = "border" -> 11]

\* No call of an earlier stage follows a call of a later stage (each call's
\* stage is at least its predecessor's), and clip() precedes every call of
\* the chart stages.
StagesInOrder ==
    /\ \A i \in 1..(Len(calls) - 1) :
          StageRank[calls[i].stage] <= StageRank[calls[i + 1].stage]
    /\ LET clips == { j \in DOMAIN calls : calls[j].op = "clip" }
       IN  \A k \in DOMAIN calls :
              calls[k].stage \in ChartStages => \E j \in clips : j < k

\* C2: the calls of a pass come in the fixed stage order, clip() before any
\* chart primitive, and a pass that has gone through its stages ends with
\* the dividing circle at r_2 as its last primitive.
C2_PaintOrder ==
    /\ StagesInOrder
    /\ RanThrough =>
          /\ calls[Len(calls)] = Call("stroke", "border", <<1>>, <<"date">>)
          /\ calls[Len(calls) - 1] = Call("circle", "border", <<0, 0, r_2>>, <<>>)

\* The distance between two directions, as angles in radians.
AngDist(a, b) ==
    LET d == (a - b) % unit_rev
    IN  IF d > pi THEN unit_rev - d ELSE d

\* A tenth of a degree.
AngTol == unit_deg \div 10

\* C3: the ring has 27 ticks, and the angle given to cos and sin for tick i
\* is the direction base + i * (360/27) degrees, the base being the angle of
\* the reference instant (zero), counted in one sense of rotation for the
\* whole ring.
C3_TicksEqualArcs ==
    /\ \E sense \in {-1, 1} :
          \A k \in FeatsOf("nak") :
              AngDist(feats[k].theta, sense * ((feats[k].idx * unit_rev) \div 27))
                  <= AngTol
    /\ FeatsOf("nak") # {} => Count("nak", "move_to") = 27

\* C10: on a southern chart tick i is drawn at the mirror image, about the
\* base angle (zero), of the direction it has on a northern chart.
C10_Mirrored ==
    settings.latitude < 0 =>
        \A k \in FeatsOf("nak") :
            AngDist(feats[k].theta, -NakTheta(-1, feats[k].idx)) <= AngTol

\* C7: a malformed stick-figure or label record is passed over and the pass
\* goes on: no pass that read one has stopped with an error.
C7_BadRecordSkipped ==
    \A k \in DOMAIN feats : feats[k].bad => pc # "raised"

\* C8: with a known theme and language and readable, well-formed data the
\* pass does not stop with an error.
C8_Completes ==
    ( /\ settings.theme \in themes
      /\ settings.language \in text
      /\ error # "FileNotFoundError"
      /\ \A k \in DOMAIN feats : ~feats[k].bad )
    => pc # "raised"

====
